---- MODULE Spec2Model ----
(***************************************************************************)
(* A model of the room / peer session manager of next-talk:                *)
(*   src/src/context/RoomContext.tsx  (RoomProvider)                       *)
(*   src/src/context/ChatContext.tsx  (ChatProvider)                       *)
(* Every variable is a function of the session (one RoomProvider per       *)
(* browser tab).  A step is one event-loop task of one session: the        *)
(* handler that runs, the state updates it makes, and the effects React    *)
(* re-runs because their dependencies changed.                             *)
(***************************************************************************)
EXTENDS Integers, Sequences, FiniteSets, TLC

\* ------------------------------------------------------------ bounds
MaxPeers    == 2   \* Peer objects one session creates (identity changes)
MaxTracks   == 1   \* tracks of one kind in a captured stream
MaxPending  == 1   \* shareScreen captures awaiting the user's answer
MaxCalls    == 2   \* media connections of one session
MaxHandlers == 2   \* 'call' listeners accumulated on one Peer object
MaxInFlight == 1   \* copies of one relayed event in flight to one session
MaxMessages == 2   \* chat messages one session holds
MaxTime     == 2   \* readings of the clock (new Date().getTime())

\* ------------------------------------------------------------ values
Sessions   == {"s1", "s2"}
Local      == "s1"
TheRoom    == "room"
Names      == {"Ann", "Cy"}
Undef      == "undefined"
RemoteIds  == {"p2", "p3"}
ShareIds   == {"p1", "p2"}
RemoteStreams == {"rs"}
HomeId(s)  == IF s = "s1" THEN "p1" ELSE "p2"
UserIds(s) == IF s = "s1" THEN {"p1", "p9"} ELSE {"p2"}

Contents   == {"hi", "yo"}
Times      == 1..MaxTime
ChatRooms  == {"", TheRoom}

IdentityEvents ==
  {"room-created", "get-users", "user-disconnected", "user-started-sharing",
   "user-stopped-sharing", "name-changed"}

Ev(name, peerId, uname, room) ==
  [name |-> name, peerId |-> peerId, userName |-> uname, roomId |-> room]

VARIABLES
  phase,            \* "new", "mounted" or "ended": the RoomProvider's life
  userId, userName, \* UserContext values
  me,               \* useState<Peer|null>: index into peerObjs, 0 = null
  peerObjs,         \* Peer objects created by this session: [id, open]
  idCleanup,        \* cleanup closure of the identity effect: [on, me]
  connCleanup,      \* the connection effect registered a cleanup
  camPending,       \* getUserMedia promises of the identity effect
  stream,           \* useState<MediaStream>: index into streams, 0 = undefined
  streams,          \* captured camera streams: [video, audio] enabled flags
  screenStream,     \* useState<MediaStream>: Undef or "display"
  sharePending,     \* captures requested by shareScreen: [kind, me]
  peers,            \* useReducer(peersReducer)
  screenSharingId, roomId, isCameraOn, isAudioOn,
  wsOn,             \* signaling events with the identity effect's listener
  joinHandlers,     \* 'user-joined' listeners: closures [me, stream, userName]
  callHandlers,     \* per Peer object, 'call' listeners: closure stream
  conns,            \* MediaConnections: [owner, peer, dir, local, sender, cbs]
  chat,             \* useReducer(chatReducer): [messages, isChatOpen]
  chatPhase,        \* "new", "mounted" or "ended": the ChatProvider's life
  sent,             \* events the last step published on ws
  net,              \* relayed sharing events in flight, per receiving session
  last,             \* history: the last step taken
  camHist,          \* history: video flags before the last camera toggles
  shareLog,         \* history: sharing events handled in a row
  sharingSeen       \* history: shareScreen was invoked or a sharing event came

vars == <<phase, userId, userName, me, peerObjs, idCleanup, connCleanup,
          camPending, stream, streams, screenStream, sharePending, peers,
          screenSharingId, roomId, isCameraOn, isAudioOn, wsOn, joinHandlers,
          callHandlers, conns, chat, chatPhase, sent, net, last, camHist,
          shareLog, sharingSeen>>

roomVars == <<phase, userId, userName, me, peerObjs, idCleanup, connCleanup,
              camPending, stream, streams, screenStream, sharePending, peers,
              screenSharingId, roomId, isCameraOn, isAudioOn, wsOn,
              joinHandlers, callHandlers, conns>>
chatVars == <<chat, chatPhase>>

\* ------------------------------------------------------------ helpers
Last(q) == q[Len(q)]
SeqOf(v, n) == [i \in 1..n |-> v]
Flip(q) == [i \in 1..Len(q) |-> ~q[i]]
RemoveAt(q, i) == [j \in 1..(Len(q) - 1) |-> IF j < i THEN q[j] ELSE q[j + 1]]
Window(q, n) == IF Len(q) <= n THEN q ELSE SubSeq(q, Len(q) - n + 1, Len(q))

\* ------------------------------------------------------------ peer registry
\* The reducer of ../reducers (peersReducer and its action creators).
addPeerStreamAction(peerId, s) ==
  [type |-> "ADD_PEER_STREAM", peerId |-> peerId, userName |-> Undef,
   stream |-> s, peers |-> <<>>]
addPeerNameAction(peerId, name) ==
  [type |-> "ADD_PEER_NAME", peerId |-> peerId, userName |-> name,
   stream |-> Undef, peers |-> <<>>]
removePeerStreamAction(peerId) ==
  [type |-> "REMOVE_PEER_STREAM", peerId |-> peerId, userName |-> Undef,
   stream |-> Undef, peers |-> <<>>]
addAllPeersAction(participants) ==
  [type |-> "ADD_ALL_PEERS", peerId |-> Undef, userName |-> Undef,
   stream |-> Undef, peers |-> participants]

peersReducer(state, action) ==
  LET id == action.peerId
      old == IF id \in DOMAIN state THEN state[id]
             ELSE [userName |-> Undef, stream |-> Undef]
      others == [p \in DOMAIN state \ {id} |-> state[p]]
  IN CASE action.type = "ADD_PEER_STREAM" ->
            others @@ (id :> [old EXCEPT !.stream = action.stream])
       [] action.type = "ADD_PEER_NAME" ->
            others @@ (id :> [old EXCEPT !.userName = action.userName])
       [] action.type = "REMOVE_PEER_STREAM" -> others
       [] action.type = "ADD_ALL_PEERS" -> action.peers

\* dispatch called n times with the same action
RECURSIVE Dispatch(_, _, _)
Dispatch(state, action, n) ==
  IF n = 0 THEN state ELSE Dispatch(peersReducer(state, action), action, n - 1)

NoPeers == [p \in {} |-> Undef]

\* Roster snapshots the signaling server can send: id -> {userName}.
Snapshots ==
  UNION {[D -> [userName : Names, stream : {Undef}]] : D \in SUBSET RemoteIds}

\* ------------------------------------------------------------ chat state
\* The reducer of ../reducers (chatReducer and its action creators).
IMessage == [content : Contents, timestamp : Times, author : Names]
NoMessage == [content |-> "", timestamp |-> 0, author |-> ""]

addMessageAction(message) ==
  [type |-> "ADD_MESSAGE", message |-> message, history |-> <<>>,
   isOpen |-> FALSE]
addHistoryAction(history) ==
  [type |-> "ADD_HISTORY", message |-> NoMessage, history |-> history,
   isOpen |-> FALSE]
toggleChatAction(isOpen) ==
  [type |-> "TOGGLE_CHAT", message |-> NoMessage, history |-> <<>>,
   isOpen |-> isOpen]

chatReducer(state, action) ==
  CASE action.type = "ADD_MESSAGE" ->
         [state EXCEPT !.messages = Append(@, action.message)]
    [] action.type = "ADD_HISTORY" ->
         [state EXCEPT !.messages = action.history]
    [] action.type = "TOGGLE_CHAT" ->
         [state EXCEPT !.isChatOpen = action.isOpen]

\* Backfills the signaling server can send with get-messages.
Histories == {<<>>} \cup {<<m>> : m \in IMessage}

\* ws.emit("send-message", roomId, messageData)
ChatEv(room, message) ==
  [name |-> "send-message", roomId |-> room, message |-> message]

\* ------------------------------------------------------------ signaling relay
\* The relayed form of a published sharing event: "" stands for
\* user-stopped-sharing, an id for user-started-sharing(id).
NetMsgs == {"", "p1", "p2", "p9"}
NoNet == [t \in Sessions |-> [m \in NetMsgs |-> 0]]
Relayable(e) ==
  \/ e.name = "stop-sharing"
  \/ e.name = "start-sharing" /\ e.roomId = TheRoom
RelayMsg(e) == IF e.name = "stop-sharing" THEN "" ELSE e.peerId

RECURSIVE Forward(_, _, _)
Forward(n, s, evs) ==
  IF evs = <<>> THEN n
  ELSE LET e == Head(evs)
           n1 == IF Relayable(e)
                 THEN [t \in Sessions |->
                         IF t # s /\ phase[t] = "mounted"
                         THEN [n[t] EXCEPT ![RelayMsg(e)] = @ + 1] ELSE n[t]]
                 ELSE n
       IN Forward(n1, s, Tail(evs))

\* ws.emit of the events `out` by session s; n0 is the traffic still in flight.
Publish(s, out, n0) ==
  /\ sent' = out
  /\ net' = Forward(n0, s, out)
  /\ \A t \in Sessions : \A m \in NetMsgs : net'[t][m] <= MaxInFlight

\* ------------------------------------------------------------ effects
\* Mutant: the change-name effect does not carry the room id.
ChangeNameEffectNoRoom(uid, uname, room) ==
  <<Ev("change-name", uid, uname, "")>>

\* useEffect(..., [userName, userId, roomId])
ChangeNameEffect(uid, uname, room) == <<Ev("change-name", uid, uname, room)>>

\* useEffect(..., [screenSharingId, roomId])
SharingEffect(ssid, room) ==
  IF ssid # "" THEN <<Ev("start-sharing", ssid, "", room)>>
  ELSE <<Ev("stop-sharing", "", "", "")>>

\* Mutant: only the session's own id is published as start-sharing.
SharingEffectOwnOnly(s, ssid) ==
  IF ssid = screenSharingId[s] THEN <<>>
  ELSE IF ssid = "" THEN SharingEffect(ssid, roomId[s])
  ELSE IF me[s] # 0 /\ peerObjs[s][me[s]].id = ssid
       THEN SharingEffect(ssid, roomId[s])
  ELSE <<>>

\* The sharing effect after a step that set screenSharingId to ssid.
SharingEffectIfChanged(s, ssid) ==
  IF ssid # screenSharingId[s] THEN SharingEffect(ssid, roomId[s]) ELSE <<>>

\* Mutant: the connection effect does not wait for the local stream.
ConnEffectNoStreamGuard(s, m, st, un, jh, ch) ==
  LET ready == m # 0
      off == IF connCleanup[s] THEN <<>> ELSE jh
  IN /\ ready => Len(ch[m]) < MaxHandlers
     /\ joinHandlers' = [joinHandlers EXCEPT ![s] =
          IF ready THEN Append(off, [me |-> m, stream |-> st, userName |-> un])
          ELSE off]
     /\ callHandlers' = [callHandlers EXCEPT ![s] =
          IF ready THEN [ch EXCEPT ![m] = Append(@, st)] ELSE ch]
     /\ connCleanup' = [connCleanup EXCEPT ![s] = ready]

\* useEffect(..., [me, stream, userName]): its cleanup, then its body, with
\* the new values m, st, un; jh and ch are the listeners before it runs.
ConnEffect(s, m, st, un, jh, ch) ==
  LET ready == m # 0 /\ st # 0
      off == IF connCleanup[s] THEN <<>> ELSE jh
  IN /\ ready => Len(ch[m]) < MaxHandlers
     /\ joinHandlers' = [joinHandlers EXCEPT ![s] =
          IF ready THEN Append(off, [me |-> m, stream |-> st, userName |-> un])
          ELSE off]
     /\ callHandlers' = [callHandlers EXCEPT ![s] =
          IF ready THEN [ch EXCEPT ![m] = Append(@, st)] ELSE ch]
     /\ connCleanup' = [connCleanup EXCEPT ![s] = ready]

\* ------------------------------------------------------------ history
SharingOps == {"user-started-sharing", "user-stopped-sharing"}
Note(op, s, id) ==
  /\ last' = [op |-> op, s |-> s, id |-> id]
  /\ camHist' = [camHist EXCEPT ![s] =
       IF op = "handleCameraToggle"
       THEN Window(Append(@, [stream |-> stream[s],
                              video |-> IF stream[s] = 0 THEN <<>>
                                        ELSE streams[s][stream[s]].video,
                              isCameraOn |-> isCameraOn[s]]), 2)
       ELSE <<>>]
  /\ op \notin SharingOps => shareLog' = [shareLog EXCEPT ![s] = <<>>]
  /\ sharingSeen' = [sharingSeen EXCEPT ![s] =
       @ \/ op \in SharingOps \cup {"shareScreen"}]

\* ------------------------------------------------------------ initial state
Init ==
  /\ phase = [s \in Sessions |-> "new"]
  /\ userId = [s \in Sessions |-> ""]
  /\ userName = [s \in Sessions |-> "Ann"]
  /\ me = [s \in Sessions |-> 0]
  /\ peerObjs = [s \in Sessions |-> <<>>]
  /\ idCleanup = [s \in Sessions |-> [on |-> FALSE, me |-> 0]]
  /\ connCleanup = [s \in Sessions |-> FALSE]
  /\ camPending = [s \in Sessions |-> 0]
  /\ stream = [s \in Sessions |-> 0]
  /\ streams = [s \in Sessions |-> <<>>]
  /\ screenStream = [s \in Sessions |-> Undef]
  /\ sharePending = [s \in Sessions |-> <<>>]
  /\ peers = [s \in Sessions |-> NoPeers]
  /\ screenSharingId = [s \in Sessions |-> ""]
  /\ roomId = [s \in Sessions |-> ""]
  /\ isCameraOn = [s \in Sessions |-> TRUE]
  /\ isAudioOn = [s \in Sessions |-> TRUE]
  /\ wsOn = [s \in Sessions |-> {}]
  /\ joinHandlers = [s \in Sessions |-> <<>>]
  /\ callHandlers = [s \in Sessions |-> <<>>]
  /\ conns = [s \in Sessions |-> <<>>]
  /\ chat = [s \in Sessions |-> [messages |-> <<>>, isChatOpen |-> FALSE]]
  /\ chatPhase = [s \in Sessions |-> "new"]
  /\ sent = <<>>
  /\ net = NoNet
  /\ last = [op |-> "init", s |-> "", id |-> ""]
  /\ camHist = [s \in Sessions |-> <<>>]
  /\ shareLog = [s \in Sessions |-> <<>>]
  /\ sharingSeen = [s \in Sessions |-> FALSE]

Mounted(s) == phase[s] = "mounted"

\* ------------------------------------------------------------ lifecycle
\* First render and its effects: change-name, the identity effect (which
\* returns at once, userId being empty), the sharing effect, the connection
\* effect (which returns at once, me being null).
Mount(s) ==
  /\ phase[s] = "new"
  /\ phase' = [phase EXCEPT ![s] = "mounted"]
  /\ Publish(s, ChangeNameEffect(userId[s], userName[s], roomId[s])
                  \o SharingEffect(screenSharingId[s], roomId[s]), net)
  /\ Note("mount", s, "")
  /\ UNCHANGED <<chatVars, userId, userName, me, peerObjs, idCleanup, connCleanup,
                 camPending, stream, streams, screenStream, sharePending,
                 peers, screenSharingId, roomId, isCameraOn, isAudioOn, wsOn,
                 joinHandlers, callHandlers, conns>>

\* UserContext supplies a (new) userId: the change-name effect, the identity
\* effect (cleanup of its previous run, then its body) and, on the re-render
\* that setMe causes, the connection effect.
SetUserId(s, u) ==
  /\ Mounted(s) /\ u \in UserIds(s) /\ u # userId[s]
  /\ Len(peerObjs[s]) < MaxPeers
  /\ LET c == idCleanup[s]
         k == Len(peerObjs[s]) + 1
         closed == IF c.on /\ c.me # 0
                   THEN [peerObjs[s] EXCEPT ![c.me].open = FALSE]
                   ELSE peerObjs[s]
         jh == IF c.on THEN <<>> ELSE joinHandlers[s]
     IN /\ userId' = [userId EXCEPT ![s] = u]
        /\ peerObjs' = [peerObjs EXCEPT ![s] =
                          Append(closed, [id |-> u, open |-> TRUE])]
        /\ me' = [me EXCEPT ![s] = k]
        /\ idCleanup' = [idCleanup EXCEPT ![s] = [on |-> TRUE, me |-> me[s]]]
        /\ camPending' = [camPending EXCEPT ![s] = @ + 1]
        /\ wsOn' = [wsOn EXCEPT ![s] = IdentityEvents]
        /\ ConnEffect(s, k, stream[s], userName[s], jh,
                      Append(callHandlers[s], <<>>))
  /\ Publish(s, ChangeNameEffect(u, userName[s], roomId[s]), net)
  /\ Note("setUserId", s, u)
  /\ UNCHANGED <<chatVars, phase, userName, stream, streams, screenStream,
                 sharePending, peers, screenSharingId, roomId, isCameraOn,
                 isAudioOn, conns>>

\* UserContext supplies another display name: the change-name effect and the
\* connection effect.
SetUserName(s, n) ==
  /\ Mounted(s) /\ n \in Names /\ n # userName[s]
  /\ userName' = [userName EXCEPT ![s] = n]
  /\ ConnEffect(s, me[s], stream[s], n, joinHandlers[s], callHandlers[s])
  /\ Publish(s, ChangeNameEffect(userId[s], n, roomId[s]), net)
  /\ Note("setUserName", s, n)
  /\ UNCHANGED <<chatVars, phase, userId, me, peerObjs, idCleanup, camPending, stream,
                 streams, screenStream, sharePending, peers, screenSharingId,
                 roomId, isCameraOn, isAudioOn, wsOn, conns>>

\* setRoomId(id), called by the room page: the change-name effect and the
\* sharing effect.
SetRoomId(s) ==
  /\ Mounted(s) /\ roomId[s] # TheRoom
  /\ roomId' = [roomId EXCEPT ![s] = TheRoom]
  /\ Publish(s, ChangeNameEffect(userId[s], userName[s], TheRoom)
                  \o SharingEffect(screenSharingId[s], TheRoom), net)
  /\ Note("setRoomId", s, TheRoom)
  /\ UNCHANGED <<chatVars, phase, userId, userName, me, peerObjs, idCleanup,
                 connCleanup, camPending, stream, streams, screenStream,
                 sharePending, peers, screenSharingId, isCameraOn, isAudioOn,
                 wsOn, joinHandlers, callHandlers, conns>>

\* The identity effect's getUserMedia resolves with a stream of nv video and
\* na audio tracks, all enabled: setStream, then the connection effect.
CameraResolve(s, nv, na) ==
  /\ Mounted(s) /\ camPending[s] > 0
  /\ nv \in 0..MaxTracks /\ na \in 0..MaxTracks
  /\ LET h == Len(streams[s]) + 1
     IN /\ streams' = [streams EXCEPT ![s] =
             Append(@, [video |-> SeqOf(TRUE, nv), audio |-> SeqOf(TRUE, na)])]
        /\ stream' = [stream EXCEPT ![s] = h]
        /\ ConnEffect(s, me[s], h, userName[s], joinHandlers[s],
                      callHandlers[s])
  /\ camPending' = [camPending EXCEPT ![s] = @ - 1]
  /\ Publish(s, <<>>, net)
  /\ Note("cameraResolve", s, "")
  /\ UNCHANGED <<chatVars, phase, userId, userName, me, peerObjs, idCleanup,
                 screenStream, sharePending, peers, screenSharingId, roomId,
                 isCameraOn, isAudioOn, wsOn, conns>>

\* The identity effect's getUserMedia is rejected: no .catch, nothing changes.
CameraReject(s) ==
  /\ Mounted(s) /\ camPending[s] > 0
  /\ camPending' = [camPending EXCEPT ![s] = @ - 1]
  /\ Publish(s, <<>>, net)
  /\ Note("cameraReject", s, "")
  /\ UNCHANGED <<chatVars, phase, userId, userName, me, peerObjs, idCleanup,
                 connCleanup, stream, streams, screenStream, sharePending,
                 peers, screenSharingId, roomId, isCameraOn, isAudioOn, wsOn,
                 joinHandlers, callHandlers, conns>>

\* Session end: the cleanups of the identity effect and the connection effect.
Unmount(s) ==
  /\ Mounted(s)
  /\ phase' = [phase EXCEPT ![s] = "ended"]
  /\ LET c == idCleanup[s]
     IN /\ wsOn' = [wsOn EXCEPT ![s] = IF c.on THEN {} ELSE @]
        /\ joinHandlers' = [joinHandlers EXCEPT ![s] =
             IF c.on \/ connCleanup[s] THEN <<>> ELSE @]
        /\ peerObjs' = [peerObjs EXCEPT ![s] =
             IF c.on /\ c.me # 0 THEN [@ EXCEPT ![c.me].open = FALSE] ELSE @]
  /\ idCleanup' = [idCleanup EXCEPT ![s] = [on |-> FALSE, me |-> 0]]
  /\ connCleanup' = [connCleanup EXCEPT ![s] = FALSE]
  /\ Publish(s, <<>>, net)
  /\ Note("unmount", s, "")
  /\ UNCHANGED <<chatVars, userId, userName, me, camPending, stream, streams,
                 screenStream, sharePending, peers, screenSharingId, roomId,
                 isCameraOn, isAudioOn, callHandlers, conns>>

\* ------------------------------------------------------------ local media
\* Mutant: the toggle can only switch the flag off.
handleCameraToggleOffOnly(s) ==
  /\ Mounted(s)
  /\ IF stream[s] # 0
     THEN LET tracks == streams[s][stream[s]].video
          IN /\ streams' = [streams EXCEPT ![s][stream[s]].video = Flip(tracks)]
             /\ isCameraOn' = [isCameraOn EXCEPT ![s] =
                  IF Len(tracks) > 0 THEN FALSE ELSE isCameraOn[s]]
     ELSE UNCHANGED <<streams, isCameraOn>>
  /\ Publish(s, <<>>, net)
  /\ Note("handleCameraToggle", s, "")
  /\ UNCHANGED <<chatVars, phase, userId, userName, me, peerObjs, idCleanup,
                 connCleanup, camPending, stream, screenStream, sharePending,
                 peers, screenSharingId, roomId, isAudioOn, wsOn,
                 joinHandlers, callHandlers, conns>>

handleCameraToggle(s) ==
  /\ Mounted(s)
  /\ IF stream[s] # 0
     THEN LET tracks == streams[s][stream[s]].video
          IN /\ streams' = [streams EXCEPT ![s][stream[s]].video = Flip(tracks)]
             /\ isCameraOn' = [isCameraOn EXCEPT ![s] =
                  IF Len(tracks) > 0 THEN ~isCameraOn[s] ELSE isCameraOn[s]]
     ELSE UNCHANGED <<streams, isCameraOn>>
  /\ Publish(s, <<>>, net)
  /\ Note("handleCameraToggle", s, "")
  /\ UNCHANGED <<chatVars, phase, userId, userName, me, peerObjs, idCleanup,
                 connCleanup, camPending, stream, screenStream, sharePending,
                 peers, screenSharingId, roomId, isAudioOn, wsOn,
                 joinHandlers, callHandlers, conns>>

\* Mutant: setIsAudioOn is called outside the `if (stream)` block.
handleAudioToggleFlagAlways(s) ==
  /\ Mounted(s)
  /\ IF stream[s] # 0
     THEN streams' = [streams EXCEPT ![s][stream[s]].audio = Flip(@)]
     ELSE UNCHANGED streams
  /\ isAudioOn' = [isAudioOn EXCEPT ![s] = ~isAudioOn[s]]
  /\ Publish(s, <<>>, net)
  /\ Note("handleAudioToggle", s, "")
  /\ UNCHANGED <<chatVars, phase, userId, userName, me, peerObjs, idCleanup,
                 connCleanup, camPending, stream, screenStream, sharePending,
                 peers, screenSharingId, roomId, isCameraOn, wsOn,
                 joinHandlers, callHandlers, conns>>

handleAudioToggle(s) ==
  /\ Mounted(s)
  /\ IF stream[s] # 0
     THEN LET tracks == streams[s][stream[s]].audio
          IN /\ streams' = [streams EXCEPT ![s][stream[s]].audio = Flip(tracks)]
             /\ isAudioOn' = [isAudioOn EXCEPT ![s] =
                  IF Len(tracks) > 0 THEN ~isAudioOn[s] ELSE isAudioOn[s]]
     ELSE UNCHANGED <<streams, isAudioOn>>
  /\ Publish(s, <<>>, net)
  /\ Note("handleAudioToggle", s, "")
  /\ UNCHANGED <<chatVars, phase, userId, userName, me, peerObjs, idCleanup,
                 connCleanup, camPending, stream, screenStream, sharePending,
                 peers, screenSharingId, roomId, isCameraOn, wsOn,
                 joinHandlers, callHandlers, conns>>

\* ------------------------------------------------------------ screen sharing
\* me.connections groups the connections by remote peer; switchStream
\* touches connection[0] of each group only.
FirstOfGroup(cs, i) ==
  ~\E j \in 1..(i - 1) : cs[j].owner = cs[i].owner /\ cs[j].peer = cs[i].peer

\* switchStream(newStream) of the render whose `me` is m; the captured stream
\* has a video track of the given kind.  The new screenSharingId ...
switchStreamId(s, m) ==
  IF m = 0 THEN screenSharingId[s] ELSE peerObjs[s][m].id

\* ... and the connections after the replaceTrack calls.
switchStreamConns(s, m, kind) ==
  IF m = 0 THEN conns[s]
  ELSE [i \in 1..Len(conns[s]) |->
          LET c == conns[s][i]
          IN IF c.owner = m /\ FirstOfGroup(conns[s], i) /\ c.sender # "none"
             THEN [c EXCEPT !.sender = kind] ELSE c]

\* The button: a capture is requested; its .then closes over this render.
shareScreen(s) ==
  /\ Mounted(s) /\ Len(sharePending[s]) < MaxPending
  /\ sharePending' = [sharePending EXCEPT ![s] =
       Append(@, [kind |-> IF screenSharingId[s] # "" THEN "getUserMedia"
                           ELSE "getDisplayMedia",
                  me |-> me[s]])]
  /\ Publish(s, <<>>, net)
  /\ Note("shareScreen", s, "")
  /\ UNCHANGED <<chatVars, phase, userId, userName, me, peerObjs, idCleanup,
                 connCleanup, camPending, stream, streams, screenStream,
                 peers, screenSharingId, roomId, isCameraOn, isAudioOn, wsOn,
                 joinHandlers, callHandlers, conns>>

\* The i-th requested capture resolves: switchStream (and setScreenStream for
\* a display capture), then the sharing effect if screenSharingId changed.
shareResolve(s, i) ==
  /\ Mounted(s) /\ i \in 1..Len(sharePending[s])
  /\ LET r == sharePending[s][i]
         display == r.kind = "getDisplayMedia"
         ssid == switchStreamId(s, r.me)
     IN /\ screenSharingId' = [screenSharingId EXCEPT ![s] = ssid]
        /\ conns' = [conns EXCEPT ![s] =
             switchStreamConns(s, r.me, IF display THEN "display"
                                        ELSE "freshCamera")]
        /\ screenStream' = [screenStream EXCEPT ![s] =
             IF display THEN "display" ELSE @]
        /\ Publish(s, SharingEffectIfChanged(s, ssid), net)
        /\ Note(r.kind, s, "")
  /\ sharePending' = [sharePending EXCEPT ![s] = RemoveAt(@, i)]
  /\ UNCHANGED <<chatVars, phase, userId, userName, me, peerObjs, idCleanup,
                 connCleanup, camPending, stream, streams, peers, roomId,
                 isCameraOn, isAudioOn, wsOn, joinHandlers, callHandlers>>

\* Mutant: a refused capture resets the arbiter and the screen stream.
shareRejectResets(s, i) ==
  /\ Mounted(s) /\ i \in 1..Len(sharePending[s])
  /\ sharePending' = [sharePending EXCEPT ![s] = RemoveAt(@, i)]
  /\ screenSharingId' = [screenSharingId EXCEPT ![s] = ""]
  /\ screenStream' = [screenStream EXCEPT ![s] = Undef]
  /\ Publish(s, SharingEffectIfChanged(s, ""), net)
  /\ Note("shareReject", s, "")
  /\ UNCHANGED <<chatVars, phase, userId, userName, me, peerObjs, idCleanup,
                 connCleanup, camPending, stream, streams, peers, roomId,
                 isCameraOn, isAudioOn, wsOn, joinHandlers, callHandlers,
                 conns>>

\* The i-th requested capture is refused (the user cancels): no handler.
shareReject(s, i) ==
  /\ Mounted(s) /\ i \in 1..Len(sharePending[s])
  /\ sharePending' = [sharePending EXCEPT ![s] = RemoveAt(@, i)]
  /\ Publish(s, <<>>, net)
  /\ Note("shareReject", s, "")
  /\ UNCHANGED <<chatVars, phase, userId, userName, me, peerObjs, idCleanup,
                 connCleanup, camPending, stream, streams, screenStream,
                 peers, screenSharingId, roomId, isCameraOn, isAudioOn, wsOn,
                 joinHandlers, callHandlers, conns>>

\* ------------------------------------------------------------ signaling events
\* Mutant: the first sharer wins (compare-and-swap against a non-empty id).
userStartedSharingFirstWins(s, peerId, n0) ==
  /\ Mounted(s)
  /\ LET ssid == IF "user-started-sharing" \in wsOn[s]
                    /\ screenSharingId[s] = ""
                 THEN peerId ELSE screenSharingId[s]
     IN /\ screenSharingId' = [screenSharingId EXCEPT ![s] = ssid]
        /\ Publish(s, IF ssid # screenSharingId[s]
                      THEN <<Ev("start-sharing", ssid, "", roomId[s])>>
                      ELSE <<>>, n0)
  /\ Note("user-started-sharing", s, peerId)
  /\ UNCHANGED <<chatVars, phase, userId, userName, me, peerObjs, idCleanup,
                 connCleanup, camPending, stream, streams, screenStream,
                 sharePending, peers, roomId, isCameraOn, isAudioOn, wsOn,
                 joinHandlers, callHandlers, conns>>

\* ws.on("user-started-sharing", (peerId) => setScreenSharingId(peerId))
userStartedSharing(s, peerId, n0) ==
  /\ Mounted(s)
  /\ LET ssid == IF "user-started-sharing" \in wsOn[s] THEN peerId
                 ELSE screenSharingId[s]
     IN /\ screenSharingId' = [screenSharingId EXCEPT ![s] = ssid]
        /\ Publish(s, SharingEffectIfChanged(s, ssid), n0)
  /\ Note("user-started-sharing", s, peerId)
  /\ UNCHANGED <<chatVars, phase, userId, userName, me, peerObjs, idCleanup,
                 connCleanup, camPending, stream, streams, screenStream,
                 sharePending, peers, roomId, isCameraOn, isAudioOn, wsOn,
                 joinHandlers, callHandlers, conns>>

\* ws.on("user-stopped-sharing", () => setScreenSharingId(""))
userStoppedSharing(s, n0) ==
  /\ Mounted(s)
  /\ LET ssid == IF "user-stopped-sharing" \in wsOn[s] THEN ""
                 ELSE screenSharingId[s]
     IN /\ screenSharingId' = [screenSharingId EXCEPT ![s] = ssid]
        /\ Publish(s, SharingEffectIfChanged(s, ssid), n0)
  /\ Note("user-stopped-sharing", s, "")
  /\ UNCHANGED <<chatVars, phase, userId, userName, me, peerObjs, idCleanup,
                 connCleanup, camPending, stream, streams, screenStream,
                 sharePending, peers, roomId, isCameraOn, isAudioOn, wsOn,
                 joinHandlers, callHandlers, conns>>

\* A step that only dispatches `action` (n times) to the registry.
RegistryStep(s, action, n) ==
  /\ peers' = [peers EXCEPT ![s] = Dispatch(@, action, n)]
  /\ Publish(s, <<>>, net)
  /\ UNCHANGED <<chatVars, phase, userId, userName, me, peerObjs, idCleanup,
                 connCleanup, camPending, stream, streams, screenStream,
                 sharePending, screenSharingId, roomId, isCameraOn, isAudioOn,
                 wsOn, joinHandlers, callHandlers, conns>>

Listening(s, event) == IF event \in wsOn[s] THEN 1 ELSE 0

\* Mutant: the arbiter is cleared when the sharer disconnects.
removePeerClearsSharer(s, peerId) ==
  /\ Mounted(s)
  /\ peers' = [peers EXCEPT ![s] =
       Dispatch(@, removePeerStreamAction(peerId),
                Listening(s, "user-disconnected"))]
  /\ screenSharingId' = [screenSharingId EXCEPT ![s] =
       IF @ = peerId THEN "" ELSE @]
  /\ Publish(s, <<>>, net)
  /\ Note("user-disconnected", s, peerId)
  /\ UNCHANGED <<chatVars, phase, userId, userName, me, peerObjs, idCleanup,
                 connCleanup, camPending, stream, streams, screenStream,
                 sharePending, roomId, isCameraOn, isAudioOn, wsOn,
                 joinHandlers, callHandlers, conns>>

\* ws.on("user-disconnected", removePeer)
removePeer(s, peerId) ==
  /\ Mounted(s)
  /\ RegistryStep(s, removePeerStreamAction(peerId),
                  Listening(s, "user-disconnected"))
  /\ Note("user-disconnected", s, peerId)

\* Mutant: the snapshot is merged into the registry.
getUsersMerges(s, participants) ==
  /\ Mounted(s)
  /\ peers' = [peers EXCEPT ![s] =
       IF "get-users" \in wsOn[s]
       THEN participants
              @@ [p \in DOMAIN @ \ DOMAIN participants |-> @[p]]
       ELSE @]
  /\ Publish(s, <<>>, net)
  /\ Note("get-users", s, "")
  /\ UNCHANGED <<chatVars, phase, userId, userName, me, peerObjs, idCleanup,
                 connCleanup, camPending, stream, streams, screenStream,
                 sharePending, screenSharingId, roomId, isCameraOn, isAudioOn,
                 wsOn, joinHandlers, callHandlers, conns>>

\* ws.on("get-users", getUsers)
getUsers(s, participants) ==
  /\ Mounted(s)
  /\ RegistryStep(s, addAllPeersAction(participants), Listening(s, "get-users"))
  /\ Note("get-users", s, "")

\* ws.on("name-changed", nameChangedHandler)
nameChangedHandler(s, peerId, name) ==
  /\ Mounted(s)
  /\ RegistryStep(s, addPeerNameAction(peerId, name),
                  Listening(s, "name-changed"))
  /\ Note("name-changed", s, peerId)

\* ------------------------------------------------------------ connections
SenderOf(s, st) ==
  IF st # 0 /\ streams[s][st].video # <<>> THEN "camera" ELSE "none"

\* The MediaConnection one 'user-joined' listener h creates with me.call.
OutboundCall(s, h, peerId) ==
  [owner |-> h.me, peer |-> peerId, dir |-> "out", local |-> h.stream,
   sender |-> SenderOf(s, h.stream), meta |-> h.userName, cbs |-> 1]

\* Mutant: the listener stores the local userName it closes over.
JoinedNameShadowed(h, name) == h.userName

\* The name a 'user-joined' listener stores for the joining peer.
JoinedName(h, name) == name

\* ws delivers user-joined({peerId, userName: name}) to every listener.
userJoined(s, peerId, name) ==
  /\ Mounted(s)
  /\ Len(conns[s]) + Len(joinHandlers[s]) <= MaxCalls
  /\ LET hs == joinHandlers[s]
     IN /\ conns' = [conns EXCEPT ![s] =
             @ \o [i \in 1..Len(hs) |-> OutboundCall(s, hs[i], peerId)]]
        /\ peers' = [peers EXCEPT ![s] =
             IF hs = <<>> THEN @
             ELSE Dispatch(@, addPeerNameAction(peerId,
                                                JoinedName(hs[1], name)),
                           Len(hs))]
  /\ Publish(s, <<>>, net)
  /\ Note("user-joined", s, peerId)
  /\ UNCHANGED <<chatVars, phase, userId, userName, me, peerObjs, idCleanup,
                 connCleanup, camPending, stream, streams, screenStream,
                 sharePending, screenSharingId, roomId, isCameraOn, isAudioOn,
                 wsOn, joinHandlers, callHandlers>>

\* Peer object p receives a call from `from` with metadata {userName: name}:
\* every 'call' listener stores the name, answers (the first answer is the
\* one the connection keeps) and subscribes to the remote stream.
incomingCall(s, p, from, name) ==
  /\ Mounted(s) /\ p \in 1..Len(peerObjs[s]) /\ peerObjs[s][p].open
  /\ LET hs == callHandlers[s][p]
     IN IF hs = <<>> THEN UNCHANGED <<conns, peers>>
        ELSE /\ Len(conns[s]) < MaxCalls
             /\ peers' = [peers EXCEPT ![s] =
                  Dispatch(@, addPeerNameAction(from, name), Len(hs))]
             /\ conns' = [conns EXCEPT ![s] =
                  Append(@, [owner |-> p, peer |-> from, dir |-> "in",
                             local |-> hs[1], sender |-> SenderOf(s, hs[1]),
                             meta |-> name, cbs |-> Len(hs)])]
  /\ Publish(s, <<>>, net)
  /\ Note("call", s, from)
  /\ UNCHANGED <<chatVars, phase, userId, userName, me, peerObjs, idCleanup,
                 connCleanup, camPending, stream, streams, screenStream,
                 sharePending, screenSharingId, roomId, isCameraOn, isAudioOn,
                 wsOn, joinHandlers, callHandlers>>

\* Mutant: a remote stream for a peer the registry no longer holds is dropped.
remoteStreamIfKnown(s, i, peerStream) ==
  /\ Mounted(s) /\ i \in 1..Len(conns[s])
  /\ RegistryStep(s, addPeerStreamAction(conns[s][i].peer, peerStream),
                  IF conns[s][i].peer \in DOMAIN peers[s]
                  THEN conns[s][i].cbs ELSE 0)
  /\ Note("stream", s, conns[s][i].peer)

\* call.on("stream", ...): the remote stream of connection i arrives.
remoteStream(s, i, peerStream) ==
  /\ Mounted(s) /\ i \in 1..Len(conns[s])
  /\ RegistryStep(s, addPeerStreamAction(conns[s][i].peer, peerStream),
                  conns[s][i].cbs)
  /\ Note("stream", s, conns[s][i].peer)

\* ------------------------------------------------------------ chat
\* First render of the ChatProvider and its effect: ws.on("add-message"),
\* ws.on("get-messages").
ChatMount(s) ==
  /\ chatPhase[s] = "new"
  /\ chatPhase' = [chatPhase EXCEPT ![s] = "mounted"]
  /\ Publish(s, <<>>, net)
  /\ Note("chatMount", s, "")
  /\ UNCHANGED <<roomVars, chat>>

\* The effect's cleanup: ws.off("add-message"), ws.off("get-messages").
ChatUnmount(s) ==
  /\ chatPhase[s] = "mounted"
  /\ chatPhase' = [chatPhase EXCEPT ![s] = "ended"]
  /\ Publish(s, <<>>, net)
  /\ Note("chatUnmount", s, "")
  /\ UNCHANGED <<roomVars, chat>>

\* A step of the mounted ChatProvider: one dispatch, the events `out` emitted.
ChatStep(s, action, out) ==
  /\ chatPhase[s] = "mounted"
  /\ chat' = [chat EXCEPT ![s] = chatReducer(@, action)]
  /\ Len(chat'[s].messages) <= MaxMessages
  /\ Publish(s, out, net)
  /\ UNCHANGED <<roomVars, chatPhase>>

\* Mutant: the message is only emitted; the list waits for the server's echo.
sendMessageEmitOnly(s, message, room, author, now) ==
  /\ chatPhase[s] = "mounted"
  /\ Publish(s, <<ChatEv(room, [content |-> message, timestamp |-> now,
                                author |-> author])>>, net)
  /\ Note("sendMessage", s, "")
  /\ UNCHANGED <<roomVars, chat, chatPhase>>

\* sendMessage(message, roomId, author); now is what new Date().getTime()
\* returns.
sendMessage(s, message, room, author, now) ==
  LET messageData == [content |-> message, timestamp |-> now,
                      author |-> author]
  IN /\ ChatStep(s, addMessageAction(messageData),
                  <<ChatEv(room, messageData)>>)
     /\ Note("sendMessage", s, "")

\* ws.on("add-message", addMessage)
addMessage(s, message) ==
  /\ ChatStep(s, addMessageAction(message), <<>>)
  /\ Note("add-message", s, "")

\* ws.on("get-messages", addHistory)
addHistory(s, messages) ==
  /\ ChatStep(s, addHistoryAction(messages), <<>>)
  /\ Note("get-messages", s, "")

\* toggleChat()
toggleChat(s) ==
  /\ ChatStep(s, toggleChatAction(~chat[s].isChatOpen), <<>>)
  /\ Note("toggleChat", s, "")

\* ------------------------------------------------------------ specifications
\* What every environment of one session s does: the session's life cycle.
Lifecycle(s, U) ==
  \/ Mount(s)
  \/ \E u \in U : SetUserId(s, u)
  \/ SetRoomId(s)
  \/ Unmount(s)

Camera(s, V, A) ==
  \/ \E nv \in V, na \in A : CameraResolve(s, nv, na)
  \/ CameraReject(s)

\* The local session as screen-share arbiter: the share button, the sharing
\* events of the signaling channel, peers joining and leaving.
\* The observer of a single session logs the sharing events it handles.
Logged(s, id) ==
  shareLog' = [shareLog EXCEPT ![s] =
    IF "user-started-sharing" \in wsOn[s] THEN Window(Append(@, id), 3)
    ELSE <<>>]

Next ==
  \/ Lifecycle(Local, {HomeId(Local)})
  \/ Camera(Local, 0..MaxTracks, {MaxTracks})
  \/ shareScreen(Local)
  \/ \E i \in 1..MaxPending : shareResolve(Local, i)
  \/ \E i \in 1..MaxPending : shareReject(Local, i)
  \/ \E p \in ShareIds : userStartedSharing(Local, p, net) /\ Logged(Local, p)
  \/ userStoppedSharing(Local, net) /\ Logged(Local, "")
  \/ \E p \in RemoteIds, n \in Names : userJoined(Local, p, n)
  \/ \E p \in RemoteIds : removePeer(Local, p)

Spec == Init /\ [][Next]_vars

\* The local session as media controller: camera acquisition and the toggles.
MediaNext ==
  \/ Lifecycle(Local, UserIds(Local))
  \/ Camera(Local, 0..MaxTracks, 0..MaxTracks)
  \/ handleCameraToggle(Local)
  \/ handleAudioToggle(Local)

MediaSpec == Init /\ [][MediaNext]_vars

\* The local session as connection orchestrator: roster events, outbound and
\* inbound calls, remote streams.
ConnNext ==
  \/ Lifecycle(Local, {HomeId(Local)})
  \/ Camera(Local, {MaxTracks}, {MaxTracks})
  \/ \E n \in Names : SetUserName(Local, n)
  \/ \E p \in RemoteIds : removePeer(Local, p)
  \/ \E ps \in Snapshots : getUsers(Local, ps)
  \/ \E p \in RemoteIds, n \in Names : nameChangedHandler(Local, p, n)
  \/ \E p \in RemoteIds, n \in Names : userJoined(Local, p, n)
  \/ \E h \in 1..MaxPeers, p \in RemoteIds, n \in Names :
       incomingCall(Local, h, p, n)
  \/ \E i \in 1..MaxCalls, rs \in RemoteStreams : remoteStream(Local, i, rs)

ConnSpec == Init /\ [][ConnNext]_vars

\* The sessions of one room behind the relay, which delivers the sharing
\* events in any order.
Deliver(s, m) ==
  /\ net[s][m] > 0
  /\ LET n0 == [net EXCEPT ![s][m] = @ - 1]
     IN IF m = "" THEN userStoppedSharing(s, n0)
        ELSE userStartedSharing(s, m, n0)
  /\ UNCHANGED shareLog

RoomNext ==
  \E s \in Sessions :
    \/ Lifecycle(s, {HomeId(s)})
    \/ shareScreen(s)
    \/ \E i \in 1..MaxPending : shareResolve(s, i)
    \/ \E i \in 1..MaxPending : shareReject(s, i)
    \/ \E m \in NetMsgs : Deliver(s, m)

RoomSpec == Init /\ [][RoomNext]_vars

\* The local session as publisher on the signaling channel: every change of
\* identity, name, room and sharer that re-runs a publishing effect.
SignalNext ==
  \/ Lifecycle(Local, UserIds(Local))
  \/ \E n \in Names : SetUserName(Local, n)
  \/ shareScreen(Local)
  \/ \E i \in 1..MaxPending : shareResolve(Local, i)
  \/ \E i \in 1..MaxPending : shareReject(Local, i)
  \/ \E p \in ShareIds : userStartedSharing(Local, p, net) /\ Logged(Local, p)
  \/ userStoppedSharing(Local, net) /\ Logged(Local, "")

SignalSpec == Init /\ [][SignalNext]_vars

\* The local session answering calls across changes of its identity: every
\* Peer object it created stays open and keeps its 'call' listeners.
InboundNext ==
  \/ Lifecycle(Local, UserIds(Local))
  \/ Camera(Local, {MaxTracks}, {MaxTracks})
  \/ \E h \in 1..MaxPeers, p \in RemoteIds, n \in Names :
       incomingCall(Local, h, p, n)
  \/ \E i \in 1..MaxCalls, rs \in RemoteStreams : remoteStream(Local, i, rs)

InboundSpec == Init /\ [][InboundNext]_vars

\* The chat of the local session: the user's messages, the server's
\* messages and backfills, the chat panel.
ChatNext ==
  \/ ChatMount(Local)
  \/ ChatUnmount(Local)
  \/ \E c \in Contents, r \in ChatRooms, a \in Names, t \in Times :
       sendMessage(Local, c, r, a, t)
  \/ \E m \in IMessage : addMessage(Local, m)
  \/ \E h \in Histories : addHistory(Local, h)
  \/ toggleChat(Local)

ChatSpec == Init /\ [][ChatNext]_vars

\* ------------------------------------------------------------ claims
\* What the arbiter contract predicts after a sequence of sharing events:
\* the id of the last user-started-sharing if no user-stopped-sharing
\* follows it, empty otherwise.
Expected(log) ==
  LET starts == {i \in 1..Len(log) : log[i] # ""}
      stops == {i \in 1..Len(log) : log[i] = ""}
  IN IF \E i \in starts : \A j \in stops : j < i
     THEN log[CHOOSE i \in starts : \A k \in starts : k <= i]
     ELSE ""

\* C1: after every sequence of user-started-sharing / user-stopped-sharing
\* events handled by one session, screenSharingId is the id of the last
\* start if no stop follows it, and empty otherwise.
C1_LastSharingEventWins ==
  \A s \in Sessions :
    shareLog[s] # <<>> => screenSharingId[s] = Expected(shareLog[s])

\* start(p1), start(p2), stop has been handled, leaving the id empty.
C1_Witness ==
  /\ shareLog[Local] = <<"p1", "p2", "">>
  /\ screenSharingId[Local] = ""

OwnId(s) == IF me[s] = 0 THEN "" ELSE peerObjs[s][me[s]].id

\* C2: when the local user is the active sharer and presses shareScreen, the
\* resolved camera capture is put on every connection, screenSharingId
\* becomes empty and stop-sharing is published.
C2_StopSharingClears ==
  [][\A s \in Sessions :
       ( /\ last.op = "shareScreen" /\ last.s = s
         /\ me[s] # 0 /\ screenSharingId[s] = OwnId(s)
         /\ screenStream[s] = "display"
         /\ last'.op = "getUserMedia" /\ last'.s = s )
       => /\ screenSharingId'[s] = ""
          /\ sent' = <<Ev("stop-sharing", "", "", "")>>
          /\ \A i \in 1..Len(conns'[s]) :
               conns[s][i].sender # "none"
                 => conns'[s][i].sender = "freshCamera"]_vars

\* C3: once the session has ended, every signaling listener it installed is
\* detached and every Peer it created is disconnected.
C3_TeardownClosesPeer ==
  \A s \in Sessions :
    phase[s] = "ended"
      => /\ wsOn[s] = {}
         /\ joinHandlers[s] = <<>>
         /\ \A p \in 1..Len(peerObjs[s]) : ~peerObjs[s][p].open

\* C4: an outbound call is placed only by a user-joined event, in a state
\* where me and the local stream exist; a user-joined event delivered while
\* the stream is absent changes neither the connections nor the registry, and
\* no later step places the call it missed.
C4_CallNeedsIdentityAndStream ==
  [][\A s \in Sessions :
       /\ ( /\ Len(conns'[s]) > Len(conns[s])
            /\ Last(conns'[s]).dir = "out" )
          => /\ me[s] # 0 /\ stream[s] # 0
             /\ Last(conns'[s]).owner = me[s]
             /\ Last(conns'[s]).local = stream[s]
             /\ last'.op = "user-joined" /\ last'.id = Last(conns'[s]).peer
       /\ ( last'.op = "user-joined" /\ last'.s = s /\ stream[s] = 0 )
          => /\ conns'[s] = conns[s]
             /\ peers'[s] = peers[s]]_vars

\* A user-joined event has just been dropped: identity known, stream absent.
C4_Witness ==
  /\ last.op = "user-joined" /\ last.s = Local
  /\ me[Local] # 0 /\ stream[Local] = 0
  /\ conns[Local] = <<>> /\ peers[Local] = NoPeers

\* C5: user-joined(p, name) handled while me and the stream are ready puts p
\* in the registry with that name at once; when the remote stream of the
\* outbound call to p then arrives, the entry holds that name and the stream.
C5_JoinThenStream ==
  [][\A s \in Sessions : \A p \in RemoteIds :
       /\ \A n \in Names :
            ( userJoined(s, p, n) /\ me[s] # 0 /\ stream[s] # 0 )
              => /\ p \in DOMAIN peers'[s]
                 /\ peers'[s][p].userName = n
       /\ \A i \in 1..Len(conns[s]) : \A rs \in RemoteStreams :
            ( /\ last.op = "user-joined" /\ last.s = s /\ last.id = p
              /\ conns[s][i].dir = "out" /\ conns[s][i].peer = p
              /\ remoteStream(s, i, rs) )
              => peers'[s][p] = [userName |-> peers[s][p].userName,
                                 stream |-> rs]]_vars

\* p3 joined as "Cy" and the remote stream of the call to p3 has arrived.
C5_Witness ==
  /\ last.op = "stream" /\ last.id = "p3"
  /\ \E i \in 1..Len(conns[Local]) :
       conns[Local][i].dir = "out" /\ conns[Local][i].peer = "p3"
  /\ "p3" \in DOMAIN peers[Local]
  /\ peers[Local]["p3"] = [userName |-> "Cy", stream |-> "rs"]

\* C6: no user-disconnected event changes screenSharingId; after
\* user-started-sharing(p) then user-disconnected(p) the registry has no
\* entry for p and screenSharingId is still p.
C6_DisconnectKeepsSharer ==
  [][\A s \in Sessions :
       ( last'.op = "user-disconnected" /\ last'.s = s )
       => /\ screenSharingId'[s] = screenSharingId[s]
          /\ ( /\ last.op = "user-started-sharing" /\ last.s = s
               /\ last.id = last'.id
               /\ "user-disconnected" \in wsOn[s] )
             => /\ last'.id \notin DOMAIN peers'[s]
                /\ screenSharingId'[s] = last'.id]_vars

\* p2, a registered peer's id, is still the sharer after p2 disconnected.
C6_Witness ==
  /\ last.op = "user-disconnected" /\ last.s = Local /\ last.id = "p2"
  /\ "user-disconnected" \in wsOn[Local]
  /\ screenSharingId[Local] = "p2"
  /\ "p2" \notin DOMAIN peers[Local]
  /\ \E i \in 1..Len(conns[Local]) : conns[Local][i].peer = "p2"

\* C7: whenever a local stream exists, isCameraOn equals the enabled flag of
\* each of its video tracks and isAudioOn that of each of its audio tracks.
C7_FlagsMatchTracks ==
  \A s \in Sessions :
    stream[s] # 0
      => LET st == streams[s][stream[s]]
         IN /\ \A i \in 1..Len(st.video) : st.video[i] = isCameraOn[s]
            /\ \A i \in 1..Len(st.audio) : st.audio[i] = isAudioOn[s]

\* C8: two camera toggles in a row restore the video tracks' enabled flags
\* and isCameraOn.
C8_ToggleTwiceRestores ==
  \A s \in Sessions :
    Len(camHist[s]) = 2
      => /\ stream[s] = camHist[s][1].stream
         /\ isCameraOn[s] = camHist[s][1].isCameraOn
         /\ stream[s] # 0 => streams[s][stream[s]].video = camHist[s][1].video

\* The camera of a stream with a video track has been toggled twice.
C8_Witness ==
  /\ Len(camHist[Local]) = 2
  /\ stream[Local] # 0
  /\ streams[Local][stream[Local]].video # <<>>
  /\ camHist[Local][2].isCameraOn # isCameraOn[Local]

\* C9 as stated: with no local stream a toggle changes no track and flips
\* its flag.
C9_ToggleWithoutStreamFlips ==
  [][\A s \in Sessions :
       ( stream[s] = 0 /\ last'.s = s )
       => /\ last'.op = "handleCameraToggle"
             => streams'[s] = streams[s] /\ isCameraOn'[s] = ~isCameraOn[s]
          /\ last'.op = "handleAudioToggle"
             => streams'[s] = streams[s] /\ isAudioOn'[s] = ~isAudioOn[s]]_vars

\* C9 amended: with no local stream a toggle changes no track and leaves
\* both flags as they were.
C9_ToggleWithoutStreamIsNoOp ==
  [][\A s \in Sessions :
       ( /\ stream[s] = 0 /\ last'.s = s
         /\ last'.op \in {"handleCameraToggle", "handleAudioToggle"} )
       => /\ streams'[s] = streams[s]
          /\ isCameraOn'[s] = isCameraOn[s]
          /\ isAudioOn'[s] = isAudioOn[s]]_vars

\* A toggle has just run in a session that has no local stream.
C9_Witness ==
  /\ last.op = "handleAudioToggle" /\ last.s = Local
  /\ stream[Local] = 0 /\ me[Local] # 0
  /\ isAudioOn[Local]

\* C10: once every relayed sharing event is delivered, the sessions of the
\* room do not hold two different non-empty screenSharingId values.
InRoom(s) == Mounted(s) /\ roomId[s] = TheRoom
Quiescent == net = NoNet /\ \A s \in Sessions : Mounted(s) => InRoom(s)
C10_OneSharerRoomWide ==
  Quiescent
    => \A s, t \in Sessions :
         ( InRoom(s) /\ InRoom(t)
           /\ screenSharingId[s] # "" /\ screenSharingId[t] # "" )
           => screenSharingId[s] = screenSharingId[t]

\* Both sessions of the room name the same sharer after a race of two
\* shareScreen calls, with nothing left in flight.
C10_Witness ==
  /\ Quiescent
  /\ \A s \in Sessions : InRoom(s) /\ screenStream[s] = "display"
  /\ \A s \in Sessions : screenSharingId[s] = "p2"

\* The events of the given names among those the step just published.
Published(names) == SelectSeq(sent', LAMBDA e : e.name \in names)

\* C11: a step that changes screenSharingId or roomId publishes exactly one
\* sharing event, start-sharing {peerId: screenSharingId, roomId} if the new
\* screenSharingId is non-empty and stop-sharing otherwise; a step that
\* changes userName, userId or roomId publishes one change-name event carrying
\* the new {peerId: userId, userName, roomId}.
C11_ChangesArePublished ==
  [][\A s \in Sessions :
       /\ ( screenSharingId'[s] # screenSharingId[s]
            \/ roomId'[s] # roomId[s] )
          => Published({"start-sharing", "stop-sharing"}) =
               IF screenSharingId'[s] # ""
               THEN <<Ev("start-sharing", screenSharingId'[s], "", roomId'[s])>>
               ELSE <<Ev("stop-sharing", "", "", "")>>
       /\ ( \/ userName'[s] # userName[s]
            \/ userId'[s] # userId[s]
            \/ roomId'[s] # roomId[s] )
          => Published({"change-name"}) =
               <<Ev("change-name", userId'[s], userName'[s], roomId'[s])>>]_vars

\* The renamed user's display capture has just made it the sharer of the
\* room, and start-sharing for its second identity was published.
C11_Witness ==
  /\ last.op = "getDisplayMedia" /\ last.s = Local
  /\ userName[Local] = "Cy" /\ userId[Local] = "p9"
  /\ screenSharingId[Local] = "p9"
  /\ sent = <<Ev("start-sharing", "p9", "", TheRoom)>>

\* C12: a get-users snapshot handled by a subscribed session replaces the
\* registry, whatever it held: afterwards its ids are exactly the snapshot's,
\* each with the snapshot's name, and every entry for an id absent from the
\* snapshot is gone, its negotiated stream included.
C12_SnapshotReplacesRegistry ==
  [][\A s \in Sessions : \A ps \in Snapshots :
       ( getUsers(s, ps) /\ "get-users" \in wsOn[s] )
       => /\ DOMAIN peers'[s] = DOMAIN ps
          /\ \A p \in DOMAIN ps : peers'[s][p].userName = ps[p].userName
          /\ \A p \in DOMAIN peers[s] \ DOMAIN ps :
               p \notin DOMAIN peers'[s]]_vars

\* A snapshot naming only p2 has replaced a registry built by calls with p3.
C12_Witness ==
  /\ last.op = "get-users" /\ last.s = Local
  /\ "get-users" \in wsOn[Local]
  /\ DOMAIN peers[Local] = {"p2"}
  /\ peers[Local]["p2"] = [userName |-> "Cy", stream |-> Undef]
  /\ \E i \in 1..Len(conns[Local]) : conns[Local][i].peer = "p3"

\* C13: sendMessage(content, roomId, author) appends the one record
\* {content, timestamp, author} at the end of the messages, changes no earlier
\* message and not isChatOpen, and emits one send-message event for roomId
\* that carries the same record.
C13_SendAppendsAndEmits ==
  [][\A s \in Sessions :
       \A c \in Contents, r \in ChatRooms, a \in Names, t \in Times :
         sendMessage(s, c, r, a, t)
         => LET m == [content |-> c, timestamp |-> t, author |-> a]
            IN /\ chat'[s].messages = Append(chat[s].messages, m)
               /\ chat'[s].isChatOpen = chat[s].isChatOpen
               /\ sent' = <<ChatEv(r, m)>>]_vars

\* "hi" by Ann was sent to the room after an earlier message, the chat
\* panel being open.
C13_Witness ==
  /\ last.op = "sendMessage" /\ last.s = Local
  /\ chat[Local].isChatOpen
  /\ Len(chat[Local].messages) = 2
  /\ chat[Local].messages[1].content = "yo"
  /\ chat[Local].messages[2] =
       [content |-> "hi", timestamp |-> 1, author |-> "Ann"]
  /\ sent = <<ChatEv(TheRoom, chat[Local].messages[2])>>

\* C14: when the remote stream of a connection arrives after the peer's
\* registry entry was removed (user-disconnected or a snapshot without it),
\* the callback creates an entry for the peer again, holding only the stream.
C14_StaleStreamRecreatesPeer ==
  [][\A s \in Sessions : \A i \in 1..Len(conns[s]) :
       \A rs \in RemoteStreams :
         ( remoteStream(s, i, rs) /\ conns[s][i].peer \notin DOMAIN peers[s] )
         => /\ conns[s][i].peer \in DOMAIN peers'[s]
            /\ peers'[s][conns[s][i].peer] =
                 [userName |-> Undef, stream |-> rs]]_vars

\* p2 is back in the registry with a stream and no name: its entry was
\* removed while the call was being negotiated.
C14_Witness ==
  /\ last.op = "stream" /\ last.s = Local /\ last.id = "p2"
  /\ "p2" \in DOMAIN peers[Local]
  /\ peers[Local]["p2"] = [userName |-> Undef, stream |-> "rs"]

\* C15: a call received by the current Peer while me and the local stream
\* exist stores the caller's metadata name in the registry without writing a
\* stream, and is answered with the session's local stream; the remote stream
\* arriving later is written into the caller's entry, the name staying.
C15_InboundNameAnswerStream ==
  [][\A s \in Sessions :
       /\ \A from \in RemoteIds, n \in Names :
            ( incomingCall(s, me[s], from, n) /\ stream[s] # 0 )
            => /\ from \in DOMAIN peers'[s]
               /\ peers'[s][from].userName = n
               /\ peers'[s][from].stream =
                    IF from \in DOMAIN peers[s] THEN peers[s][from].stream
                    ELSE Undef
               /\ Len(conns'[s]) = Len(conns[s]) + 1
               /\ Last(conns'[s]).dir = "in"
               /\ Last(conns'[s]).peer = from
               /\ Last(conns'[s]).local = stream[s]
       /\ \A i \in 1..Len(conns[s]) : \A rs \in RemoteStreams :
            ( /\ remoteStream(s, i, rs) /\ conns[s][i].dir = "in"
              /\ conns[s][i].peer \in DOMAIN peers[s] )
            => peers'[s][conns[s][i].peer] =
                 [userName |-> peers[s][conns[s][i].peer].userName,
                  stream |-> rs]]_vars

\* C16: no step of shareScreen (the button, the capture resolving, the
\* capture being refused) changes the local stream or its tracks; a refused
\* capture changes neither screenSharingId nor screenStream.
C16_ShareKeepsLocalStream ==
  [][\A s \in Sessions :
       ( /\ last'.s = s
         /\ last'.op \in {"shareScreen", "getUserMedia", "getDisplayMedia",
                          "shareReject"} )
       => /\ stream'[s] = stream[s]
          /\ streams'[s] = streams[s]
          /\ last'.op = "shareReject"
             => /\ screenSharingId'[s] = screenSharingId[s]
                /\ screenStream'[s] = screenStream[s]]_vars

\* The camera re-capture of a sharing session has just been refused: the
\* camera stream, the sharer and the screen stream are still there.
C16_Witness ==
  /\ last.op = "shareReject" /\ last.s = Local
  /\ stream[Local] # 0
  /\ screenSharingId[Local] = "p1"
  /\ screenStream[Local] = "display"
  /\ \E i \in 1..Len(conns[Local]) : conns[Local][i].sender = "display"

\* C17: whenever screenSharingId is the session's own peer id, the session
\* holds a screen capture (screenStream is set) and the video track it
\* substituted on its connections is the screen track.
C17_OwnIdMeansScreenCapture ==
  \A s \in Sessions :
    ( me[s] # 0 /\ screenSharingId[s] = OwnId(s) )
    => /\ screenStream[s] = "display"
       /\ \A i \in 1..Len(conns[s]) :
            ( /\ conns[s][i].owner = me[s] /\ FirstOfGroup(conns[s], i)
              /\ conns[s][i].sender # "none" )
            => conns[s][i].sender = "display"

\* C18: every start-sharing event a session publishes carries that session's
\* own peer id, and the step that handles user-started-sharing publishes no
\* start-sharing.
C18_StartSharingNamesSelf ==
  [][\A s \in Sessions :
       last'.s = s
       => \A k \in 1..Len(sent') :
            sent'[k].name = "start-sharing"
            => /\ me'[s] # 0
               /\ sent'[k].peerId = peerObjs'[s][me'[s]].id
               /\ last'.op # "user-started-sharing"]_vars

\* C19: a step of a session that has not invoked shareScreen and has not
\* been sent a sharing event, the step that starts it and the step that sets
\* its room id included, publishes neither start-sharing nor stop-sharing.
C19_QuietUntilSharing ==
  [][\A s \in Sessions :
       ( last'.s = s /\ ~sharingSeen'[s] )
       => Published({"start-sharing", "stop-sharing"}) = <<>>]_vars

\* C20: after every step at most one user-joined listener is installed and
\* the current Peer has at most one 'call' listener; a user-joined event
\* handled while me and the stream exist places exactly one call, and an
\* inbound call is answered by one listener, with the current local stream.
C20_OneHandlerEach ==
  [][\A s \in Sessions :
       /\ Len(joinHandlers'[s]) <= 1
       /\ me'[s] # 0 => Len(callHandlers'[s][me'[s]]) <= 1
       /\ ( /\ last'.op = "user-joined" /\ last'.s = s
            /\ me[s] # 0 /\ stream[s] # 0 )
          => Len(conns'[s]) = Len(conns[s]) + 1
       /\ ( /\ last'.op = "call" /\ last'.s = s
            /\ Len(conns'[s]) > Len(conns[s]) )
          => /\ Last(conns'[s]).cbs = 1
             /\ Last(conns'[s]).local = stream[s]]_vars
====
